---- MODULE Spec2Model ----
(***************************************************************************)
(* A model of the geometry and composition core of EnhancePPTX:            *)
(*   - the weighted partitioner of tools/renderers/decompose_boxes.py,     *)
(*   - the connector router of tools/renderers/component_diagram.py,       *)
(*   - the IR normalizer and the per-slide render loop of render.py.       *)
(* Every part has its own specification over the shared variables; the     *)
(* variables of the other parts stay at their idle values.                 *)
(***************************************************************************)
EXTENDS Integers, Sequences, FiniteSets, TLC

(***************************************************************************)
(* Bounds of the model.                                                    *)
(***************************************************************************)
MaxNodes == 4
MaxWeight == 2
MaxHeight == 3
MaxCoord == 2
MaxSize == 2
MaxItems == 2
MaxSlides == 2
MaxComps == 2
MaxTotal == 3

VARIABLES
    lay_pc,      \* "start" | "done": position of decompose_boxes.render
    lay_data,    \* the data handed to the component: [root, is_list, column_headers]
    lay_geom,    \* the geometry box {left, top, width, height}
    lay_schema,  \* TRUE when the data went through DecomposeBoxesSchema first
    root_data,   \* the root the renderer works on (render, line 21-34)
    boxes,       \* the boxes list built by layout (render, line 131)
    layout_calls,\* the arguments of every call of layout, in call order
    rt_a,        \* connector router: the geometry {x, y, w, h} of one node
    rt_b,        \* the geometry of another node
    rt_margin,   \* the margin argument
    rt_ab,       \* result of _calc_conn_points_and_sites(a, b, margin), <<>> before the call
    rt_ba,       \* result of _calc_conn_points_and_sites(b, a, margin), <<>> before the call
    nm_pc,       \* IR normalizer: "start" | "returned" | "raised" | "renormalized"
    nm_raw,      \* the value yaml.safe_load returned
    nm_out,      \* the value _normalize_ir returned
    nm_again,    \* the result of _normalize_ir(nm_out), <<>> before the call
    env,         \* what render_presentation finds: the resolved theme and the modules
                 \*   importable as tools.schemas.*, tools.renderers.* and tools.*
    rp_pc,       \* render_presentation: "slides" | "loop" | "resolve" | "dispatch" |
                 \*   "register" | "saved" | "aborted"
    slide_idx,   \* the number of the slide being rendered (enumerate, start=1)
    slide_spec,  \* the slide of the IR being rendered
    components,  \* its components after title injection and sorting
    comp_idx,    \* the number of the component being rendered (enumerate, start=1)
    cur,         \* locals of the loop body: tool, validated_data, geom, use_group, grp,
                 \*   before_ids; drawn_ids records the ids of the shapes the renderer made
    registry,    \* context["registry"]["groups"]: comp_id -> entry
    slide_shapes,\* slide.shapes of the current slide
    log,         \* what was done for each component of the current slide, in order
    pg_pc,       \* percent conversion: "start" | "parsed" | "done"
    pg_pct,      \* the percent box {x, y, w, h}
    pg_parent,   \* the parent box {left, top, width, height}; parse_geom takes the
                 \*   slide width and height from it
    pg_geom,     \* what parse_geom returned
    pg_abs       \* what _rel_to_abs returned

lay_vars == <<lay_pc, lay_data, lay_geom, lay_schema, root_data, boxes, layout_calls>>

rt_vars == <<rt_a, rt_b, rt_margin, rt_ab, rt_ba>>

nm_vars == <<nm_pc, nm_raw, nm_out, nm_again>>

rp_vars == <<env, rp_pc, slide_idx, slide_spec, components, comp_idx, cur, registry,
             slide_shapes, log>>

pg_vars == <<pg_pc, pg_pct, pg_parent, pg_geom, pg_abs>>

vars == <<lay_pc, lay_data, lay_geom, lay_schema, root_data, boxes, layout_calls,
          rt_a, rt_b, rt_margin, rt_ab, rt_ba, nm_pc, nm_raw, nm_out, nm_again,
          env, rp_pc, slide_idx, slide_spec, components, comp_idx, cur, registry,
          slide_shapes, log, pg_pc, pg_pct, pg_parent, pg_geom, pg_abs>>

(***************************************************************************)
(* Small helpers.                                                          *)
(***************************************************************************)
Idx(n) == [k \in 1..n |-> k]

Max2(a, b) == IF a >= b THEN a ELSE b

Min2(a, b) == IF a <= b THEN a ELSE b

RECURSIVE SeqSum(_)
SeqSum(s) == IF s = <<>> THEN 0 ELSE Head(s) + SeqSum(Tail(s))

RECURSIVE SeqMax(_)
SeqMax(s) == IF s = <<>> THEN 0 ELSE Max2(Head(s), SeqMax(Tail(s)))

\* Python's round() of the quotient num/den (den > 0): to the nearest integer,
\* a tie going to the even neighbour.
py_round(num, den) ==
    LET q == num \div den
        r == num % den
    IN  IF 2 * r < den THEN q
        ELSE IF 2 * r > den THEN q + 1
        ELSE IF q % 2 = 0 THEN q ELSE q + 1

\* int(total * pct / 100) for a non-negative total: truncation.
pct_int(total, pct) == (total * pct) \div 100

(***************************************************************************)
(* decompose_boxes: the input trees.                                       *)
(* A forest of n nodes numbered in pre-order: parent[i] < i is the parent  *)
(* of node i, 0 for a top-level node; weight[i] is <<>> when the node has  *)
(* no "weight" key and <<w>> when it has one.                              *)
(***************************************************************************)
NoWeight == <<>>

\* the weights the input declares; a node without the key comes out of the schema
Weights == {<<w>> : w \in 0..MaxWeight}

RECURSIVE Ancestors(_, _)
Ancestors(parent, i) ==
    IF i = 0 THEN {0} ELSE {i} \cup Ancestors(parent, parent[i])

PreOrder(parent) ==
    \A i \in 1..Len(parent) :
        IF i = 1 THEN parent[i] = 0
        ELSE parent[i] \in Ancestors(parent, i - 1)

Forests(n) ==
    { f \in [parent : [1..n -> 0..(n - 1)], weight : [1..n -> Weights]] :
        PreOrder(f.parent) }

AllForests == UNION { Forests(n) : n \in 0..MaxNodes }

children(f, i) == SelectSeq(Idx(Len(f.parent)), LAMBDA j : f.parent[j] = i)

\* small heights, where gap_y is 0, and one where gap_y is 1
GeomHeights == (0..MaxHeight) \cup {100}

Geoms == [left : {0}, top : {3}, width : {100}, height : GeomHeights]

\* DecomposeBoxNode keeps name and children only: a "weight" key of the raw
\* data is not a field of the model and is absent from model_dump().
DecomposeBoxNode(f) == [f EXCEPT !.weight = [i \in DOMAIN f.weight |-> NoWeight]]

DecomposeBoxesSchema(data) == [data EXCEPT !.root = DecomposeBoxNode(data.root)]

(***************************************************************************)
(* decompose_boxes.render                                                  *)
(***************************************************************************)
\* ch.get("weight", 1.0)
get_weight(f, i) == IF f.weight[i] = NoWeight THEN 1 ELSE f.weight[i][1]

RECURSIVE node_depth(_, _)
node_depth(f, i) ==
    LET ch == children(f, i)
    IN  IF ch = <<>> THEN 0
        ELSE 1 + SeqMax([k \in 1..Len(ch) |-> node_depth(f, ch[k])])

\* depth(root_data): of the single root, or the maximum over the list of roots
depth(f) ==
    LET roots == children(f, 0)
    IN  SeqMax([k \in 1..Len(roots) |-> node_depth(f, roots[k])])

col_gap(g, cols) == IF cols > 1 THEN pct_int(g.width, 3) ELSE 0

col_widths(g, cols) ==
    IF cols > 1
    THEN LET remaining_width == g.width - col_gap(g, cols) * (cols - 1)
             first_col_w == (remaining_width * 2) \div 10
             other_col_w == (remaining_width - first_col_w) \div (cols - 1)
         IN  [c \in 1..cols |-> IF c = 1 THEN first_col_w ELSE other_col_w]
    ELSE <<g.width>>

\* columns are numbered from 0 as in the source
col_x(g, cols, c) ==
    IF c = 0 THEN g.left
    ELSE g.left + col_widths(g, cols)[1] + col_gap(g, cols)
         + SeqSum([i \in 1..(c - 1) |-> col_widths(g, cols)[i + 1] + col_gap(g, cols)])

col_width(g, cols, c) ==
    IF c < Len(col_widths(g, cols)) THEN col_widths(g, cols)[c + 1]
    ELSE col_widths(g, cols)[Len(col_widths(g, cols))]

\* variant: the header band is reserved whether or not headers are given
header_h_always(data, g) == pct_int(g.height, 8)

header_h(data, g) == IF data.column_headers # <<>> THEN pct_int(g.height, 8) ELSE 0

content_top(data, g) == g.top + header_h(data, g)

content_h(data, g) == g.height - header_h(data, g)

gap_y(g) == pct_int(g.height, 1)

\* sum(w for w in weights if w > 0) or float(n)
total_w(f, kids) ==
    LET s == SeqSum([k \in 1..Len(kids) |->
                        IF get_weight(f, kids[k]) > 0 THEN get_weight(f, kids[k]) ELSE 0])
    IN  IF s # 0 THEN s ELSE Len(kids)

\* usable and local_gap of one level: the gaps are dropped when they do not fit
usable_of(h, gap, n) == IF h - gap * (n - 1) < 0 THEN h ELSE h - gap * (n - 1)

local_gap_of(h, gap, n) == IF h - gap * (n - 1) < 0 THEN 0 ELSE gap

\* variant: int(usable * frac), the fraction cut off
rounded_h_truncated(usable, wi, tw) == (usable * Max2(wi, 0)) \div tw

\* int(round(usable * frac)), frac = max(w, 0) / total_w
rounded_h(usable, wi, tw) == py_round(usable * Max2(wi, 0), tw)

\* variant: the last sibling measured from the top of the band, not from y
last_h_from_zero(y, h, cursor_y) == h - cursor_y

\* the height of the last sibling: what is left down to the end of the extent
last_h(y, h, cursor_y) == y + h - cursor_y

RECURSIVE layout(_, _, _, _, _, _, _, _)
RECURSIVE layout_children(_, _, _, _, _, _, _, _, _)

\* layout(node, col, x, y, w, h): the boxes of the subtree of `node`
layout(f, data, g, cols, node, col, y0, h0) ==
    LET y == Max2(y0, content_top(data, g))
        bottom == content_top(data, g) + content_h(data, g)
        h == Min2(h0, bottom - y)
        box == [node |-> node, col |-> col, x |-> col_x(g, cols, col), y |-> y,
                w |-> col_width(g, cols, col), h |-> h, arg_y |-> y0, arg_h |-> h0]
    IN  <<box>> \o layout_children(f, data, g, cols, children(f, node), col, y, h, 1)

\* the loop over the children, from child i on, with cursor_y recomputed from
\* the heights already handed out
layout_children(f, data, g, cols, kids, col, y, h, i) ==
    IF i > Len(kids) THEN <<>>
    ELSE
    LET n == Len(kids)
        usable == usable_of(h, gap_y(g), n)
        local_gap == local_gap_of(h, gap_y(g), n)
        tw == total_w(f, kids)
        cursor_y == y + SeqSum([k \in 1..(i - 1) |->
                         rounded_h(usable, get_weight(f, kids[k]), tw) + local_gap])
        ch_h == IF i < n THEN rounded_h(usable, get_weight(f, kids[i]), tw)
                ELSE last_h(y, h, cursor_y)
        child_col == Min2(col + 1, cols - 1)
    IN  layout(f, data, g, cols, kids[i], child_col, cursor_y, ch_h)
        \o layout_children(f, data, g, cols, kids, col, y, h, i + 1)

RECURSIVE layout_roots(_, _, _, _, _)
\* the loop over a list of top-level roots (render, lines 174-197)
layout_roots(f, data, g, cols, i) ==
    LET roots == children(f, 0)
        n == Len(roots)
    IN
    IF i > n THEN <<>>
    ELSE
    LET usable == usable_of(content_h(data, g), gap_y(g), n)
        local_gap == local_gap_of(content_h(data, g), gap_y(g), n)
        tw == total_w(f, roots)
        cursor_y == content_top(data, g) + SeqSum([k \in 1..(i - 1) |->
                         rounded_h(usable, get_weight(f, roots[k]), tw) + local_gap])
        h_i == IF i < n THEN rounded_h(usable, get_weight(f, roots[i]), tw)
               ELSE last_h(content_top(data, g), content_h(data, g), cursor_y)
    IN  layout(f, data, g, cols, roots[i], 0, cursor_y, h_i)
        \o layout_roots(f, data, g, cols, i + 1)

\* render(slide, data, geom, context): the layout calls made, each with the box
\* it appended to the boxes list
render_layout(data, g) ==
    LET cols == depth(data.root) + 1
    IN  IF data.is_list
        THEN layout_roots(data.root, data, g, cols, 1)
        ELSE layout(data.root, data, g, cols, 1, 0, content_top(data, g), content_h(data, g))

\* boxes.append((node, col, x, y, w, h))
box_list(recs) ==
    [k \in 1..Len(recs) |-> [node |-> recs[k].node, col |-> recs[k].col, x |-> recs[k].x,
                             y |-> recs[k].y, w |-> recs[k].w, h |-> recs[k].h]]

\* the (node, col, y, h) arguments layout was called with
call_list(recs) ==
    [k \in 1..Len(recs) |-> [node |-> recs[k].node, col |-> recs[k].col,
                             y |-> recs[k].arg_y, h |-> recs[k].arg_h]]

(***************************************************************************)
(* The layout specification: render called with a plain-dict root, or      *)
(* after the orchestrator validated the data against the schema.           *)
(***************************************************************************)
LayoutInputs ==
    { d \in [root : AllForests, is_list : BOOLEAN, column_headers : {<<>>, <<"H">>}] :
        d.is_list \/ Len(children(d.root, 0)) = 1 }

\* the state of a part that a specification does not exercise
LayIdle ==
    /\ lay_pc = "idle"
    /\ lay_data = <<>>
    /\ lay_geom = <<>>
    /\ lay_schema = FALSE
    /\ root_data = <<>>
    /\ boxes = <<>>
    /\ layout_calls = <<>>

PgIdle ==
    /\ pg_pc = "idle"
    /\ pg_pct = <<>>
    /\ pg_parent = <<>>
    /\ pg_geom = <<>>
    /\ pg_abs = <<>>

RtIdle ==
    /\ rt_a = <<>>
    /\ rt_b = <<>>
    /\ rt_margin = 0
    /\ rt_ab = <<>>
    /\ rt_ba = <<>>

NmIdle ==
    /\ nm_pc = "idle"
    /\ nm_raw = <<>>
    /\ nm_out = <<>>
    /\ nm_again = <<>>

RpIdle ==
    /\ env = <<>>
    /\ rp_pc = "idle"
    /\ slide_idx = 0
    /\ slide_spec = <<>>
    /\ components = <<>>
    /\ comp_idx = 0
    /\ cur = <<>>
    /\ registry = <<>>
    /\ slide_shapes = <<>>
    /\ log = <<>>

LayInit ==
    /\ RtIdle
    /\ NmIdle
    /\ RpIdle
    /\ PgIdle
    /\ lay_pc = "start"
    /\ lay_data \in LayoutInputs
    /\ lay_geom \in Geoms
    /\ lay_schema = FALSE
    /\ root_data = <<>>
    /\ boxes = <<>>
    /\ layout_calls = <<>>

\* decompose_boxes.render(slide, data, geom, context) on plain dict nodes
RenderPlain ==
    /\ lay_pc = "start"
    /\ lay_schema' = FALSE
    /\ root_data' = lay_data.root
    /\ LET recs == render_layout(lay_data, lay_geom)
       IN  /\ boxes' = box_list(recs)
           /\ layout_calls' = call_list(recs)
    /\ lay_pc' = "done"
    /\ UNCHANGED <<lay_data, lay_geom>>
    /\ UNCHANGED <<rt_vars, nm_vars, rp_vars, pg_vars>>

\* the orchestrator's path: validated_data = schema_class(**raw_data), then render
RenderValidated ==
    /\ lay_pc = "start"
    /\ lay_schema' = TRUE
    /\ root_data' = DecomposeBoxesSchema(lay_data).root
    /\ LET recs == render_layout(DecomposeBoxesSchema(lay_data), lay_geom)
       IN  /\ boxes' = box_list(recs)
           /\ layout_calls' = call_list(recs)
    /\ lay_pc' = "done"
    /\ UNCHANGED <<lay_data, lay_geom>>
    /\ UNCHANGED <<rt_vars, nm_vars, rp_vars, pg_vars>>

LayNext == RenderPlain \/ RenderValidated

SpecLayout == LayInit /\ [][LayNext]_vars

(***************************************************************************)
(* component_diagram._calc_conn_points_and_sites                           *)
(* The centers are halves of integers (x + w / 2); the model keeps every   *)
(* coordinate of the result in half units, so that a point (px, py) of the *)
(* code is the pair <<2 * px, 2 * py>> here.                               *)
(***************************************************************************)
Abs(v) == IF v >= 0 THEN v ELSE -v

STRAIGHT == "straight"

ELBOW == "elbow"

\* lines 43-44: twice the center of a box
center_x2(g) == 2 * g.x + g.w

center_y2(g) == 2 * g.y + g.h

\* variant: the threshold is half the sum of the heights
is_horizontal_aligned_half(from_g, to_g) ==
    Abs(center_y2(to_g) - center_y2(from_g)) < from_g.h + to_g.h

\* line 50: dy < (fh + th) / 4
is_horizontal_aligned(from_g, to_g) ==
    2 * Abs(center_y2(to_g) - center_y2(from_g)) < from_g.h + to_g.h

\* line 52: dx < (fw + tw) / 4
is_vertical_aligned(from_g, to_g) ==
    2 * Abs(center_x2(to_g) - center_x2(from_g)) < from_g.w + to_g.w

\* line 55: the condition of rule 1
rule1_matches(from_g, to_g) ==
    /\ is_horizontal_aligned(from_g, to_g)
    /\ from_g.x + from_g.w <= to_g.x \/ to_g.x + to_g.w <= from_g.x

\* variant: alignment on either axis is enough
rule2_matches_either_axis(from_g, to_g) ==
    is_vertical_aligned(from_g, to_g) \/ is_horizontal_aligned(from_g, to_g)

\* line 71: the condition of rule 2
rule2_matches(from_g, to_g) ==
    /\ is_vertical_aligned(from_g, to_g)
    /\ from_g.y + from_g.h <= to_g.y \/ to_g.y + to_g.h <= from_g.y

\* variant: the end points stay on the sides of the boxes
straight_horizontal_on_side(from_g, to_g, margin) ==
    IF from_g.x + from_g.w <= to_g.x
    THEN [start |-> <<2 * (from_g.x + from_g.w), center_y2(from_g)>>,
          end |-> <<2 * to_g.x, center_y2(to_g)>>,
          sites |-> <<3, 1>>, style |-> STRAIGHT]
    ELSE [start |-> <<2 * from_g.x, center_y2(from_g)>>,
          end |-> <<2 * (to_g.x + to_g.w), center_y2(to_g)>>,
          sites |-> <<1, 3>>, style |-> STRAIGHT]

\* lines 56-68: the straight connector of rule 1
straight_horizontal(from_g, to_g, margin) ==
    IF from_g.x + from_g.w <= to_g.x
    THEN [start |-> <<2 * (from_g.x + from_g.w + margin), center_y2(from_g)>>,
          end |-> <<2 * (to_g.x - margin), center_y2(to_g)>>,
          sites |-> <<3, 1>>, style |-> STRAIGHT]
    ELSE [start |-> <<2 * (from_g.x - margin), center_y2(from_g)>>,
          end |-> <<2 * (to_g.x + to_g.w + margin), center_y2(to_g)>>,
          sites |-> <<1, 3>>, style |-> STRAIGHT]

\* lines 72-84: the straight connector of rule 2
straight_vertical(from_g, to_g, margin) ==
    IF from_g.y + from_g.h <= to_g.y
    THEN [start |-> <<center_x2(from_g), 2 * (from_g.y + from_g.h + margin)>>,
          end |-> <<center_x2(to_g), 2 * (to_g.y - margin)>>,
          sites |-> <<2, 0>>, style |-> STRAIGHT]
    ELSE [start |-> <<center_x2(from_g), 2 * (from_g.y - margin)>>,
          end |-> <<center_x2(to_g), 2 * (to_g.y + to_g.h + margin)>>,
          sites |-> <<0, 2>>, style |-> STRAIGHT]

\* variant: the vertical axis wins when dx = dy
elbow_vertical_on_tie(from_g, to_g) ==
    LET dx2 == Abs(center_x2(to_g) - center_x2(from_g))
        dy2 == Abs(center_y2(to_g) - center_y2(from_g))
        centers == [start |-> <<center_x2(from_g), center_y2(from_g)>>,
                    end |-> <<center_x2(to_g), center_y2(to_g)>>, style |-> ELBOW]
    IN  IF dx2 > dy2
        THEN IF center_x2(to_g) > center_x2(from_g)
             THEN centers @@ [sites |-> <<3, 1>>]
             ELSE centers @@ [sites |-> <<1, 3>>]
        ELSE IF center_y2(to_g) > center_y2(from_g)
             THEN centers @@ [sites |-> <<2, 0>>]
             ELSE centers @@ [sites |-> <<0, 2>>]

\* lines 87-97: the elbow connector between the centers
elbow(from_g, to_g) ==
    LET dx2 == Abs(center_x2(to_g) - center_x2(from_g))
        dy2 == Abs(center_y2(to_g) - center_y2(from_g))
        centers == [start |-> <<center_x2(from_g), center_y2(from_g)>>,
                    end |-> <<center_x2(to_g), center_y2(to_g)>>, style |-> ELBOW]
    IN  IF dx2 >= dy2
        THEN IF center_x2(to_g) > center_x2(from_g)
             THEN centers @@ [sites |-> <<3, 1>>]
             ELSE centers @@ [sites |-> <<1, 3>>]
        ELSE IF center_y2(to_g) > center_y2(from_g)
             THEN centers @@ [sites |-> <<2, 0>>]
             ELSE centers @@ [sites |-> <<0, 2>>]

_calc_conn_points_and_sites(from_g, to_g, margin) ==
    IF rule1_matches(from_g, to_g) THEN straight_horizontal(from_g, to_g, margin)
    ELSE IF rule2_matches(from_g, to_g) THEN straight_vertical(from_g, to_g, margin)
    ELSE elbow(from_g, to_g)

(***************************************************************************)
(* The router specification: two node geometries, routed in both           *)
(* directions.                                                             *)
(***************************************************************************)
NodeGeoms == [x : 0..MaxCoord, y : 0..MaxCoord, w : 0..MaxSize, h : 0..MaxSize]

RtInit ==
    /\ LayIdle
    /\ NmIdle
    /\ RpIdle
    /\ PgIdle
    /\ rt_a \in NodeGeoms
    /\ rt_b \in NodeGeoms
    /\ rt_margin \in {0, 1}
    /\ rt_ab = <<>>
    /\ rt_ba = <<>>

\* a connector from a to b
RouteAB ==
    /\ rt_ab = <<>>
    /\ rt_ab' = _calc_conn_points_and_sites(rt_a, rt_b, rt_margin)
    /\ UNCHANGED <<rt_a, rt_b, rt_margin, rt_ba>>
    /\ UNCHANGED <<lay_vars, nm_vars, rp_vars, pg_vars>>

\* a connector from b to a
RouteBA ==
    /\ rt_ba = <<>>
    /\ rt_ba' = _calc_conn_points_and_sites(rt_b, rt_a, rt_margin)
    /\ UNCHANGED <<rt_a, rt_b, rt_margin, rt_ab>>
    /\ UNCHANGED <<lay_vars, nm_vars, rp_vars, pg_vars>>

RtNext == RouteAB \/ RouteBA

SpecRoute == RtInit /\ [][RtNext]_vars

(***************************************************************************)
(* render._normalize_ir                                                    *)
(* A value loaded from YAML is a record with one field that tells its      *)
(* type: [none |-> TRUE], [int |-> n], [str |-> s], [list |-> sequence of  *)
(* values], [dict |-> function from its keys to values].                   *)
(***************************************************************************)
PyNone == [none |-> TRUE]

PyInt(n) == [int |-> n]

PyStr(t) == [str |-> t]

PyList(items) == [list |-> items]

PyDict(d) == [dict |-> d]

EmptyDict == PyDict(<<>>)

IsList(v) == DOMAIN v = {"list"}

IsDict(v) == DOMAIN v = {"dict"}

HasKey(v, k) == k \in DOMAIN v.dict

\* d.get(k, default)
DictGet(v, k, default) == IF HasKey(v, k) THEN v.dict[k] ELSE default

\* d[k] = val
DictSet(v, k, val) ==
    PyDict([x \in DOMAIN v.dict \cup {k} |-> IF x = k THEN val ELSE v.dict[x]])

\* variant: plain assignment, which replaces a present value
setdefault_overwrite(v, k, val) == DictSet(v, k, val)

\* d.setdefault(k, val)
setdefault(v, k, val) == IF HasKey(v, k) THEN v ELSE DictSet(v, k, val)

Raised == [raised |-> "TypeError"]

Returned(v) == [returned |-> v]

_mk_min(slides) ==
    PyDict([version |-> PyInt(1), meta |-> EmptyDict, theme |-> EmptyDict,
            slides |-> slides])

\* {"id": "auto_1", "background": "#FFFFFF", "components": ir}
auto_slide(ir) ==
    PyDict([id |-> PyStr("auto_1"), background |-> PyStr("#FFFFFF"), components |-> ir])

\* variant: "components" is looked for before "tool"
normalize_list_slides_first(ir) ==
    IF /\ ir.list # <<>>
       /\ \A k \in 1..Len(ir.list) : IsDict(ir.list[k])
       /\ (HasKey(ir.list[1], "tool") \/ HasKey(ir.list[1], "components"))
    THEN IF HasKey(ir.list[1], "components")
         THEN _mk_min(ir)
         ELSE _mk_min(PyList(<<auto_slide(ir)>>))
    ELSE _mk_min(PyList(<<auto_slide(ir)>>))

normalize_list(ir) ==
    IF /\ ir.list # <<>>
       /\ \A k \in 1..Len(ir.list) : IsDict(ir.list[k])
       /\ (HasKey(ir.list[1], "tool") \/ HasKey(ir.list[1], "components"))
    THEN IF HasKey(ir.list[1], "tool")
         THEN _mk_min(PyList(<<auto_slide(ir)>>))
         ELSE _mk_min(ir)
    ELSE _mk_min(PyList(<<auto_slide(ir)>>))

\* variant: the wrapped slide is added to the slides the root already has
normalize_dict_appends(ir) ==
    LET ir3 == setdefault(setdefault(setdefault(ir, "version", PyInt(1)),
                                     "meta", EmptyDict), "theme", EmptyDict)
        slide == PyDict([id |-> DictGet(ir, "id", PyStr("auto_1")),
                         background |-> DictGet(ir, "background", PyStr("#FFFFFF")),
                         layout |-> DictGet(ir, "layout", PyNone),
                         components |-> ir.dict["components"]])
        had == IF HasKey(ir3, "slides") /\ IsList(ir3.dict["slides"])
               THEN ir3.dict["slides"].list ELSE <<>>
    IN  IF HasKey(ir3, "components")
        THEN DictSet(ir3, "slides", PyList(had \o <<slide>>))
        ELSE IF ~HasKey(ir3, "slides")
        THEN DictSet(ir3, "slides", PyList(<<>>))
        ELSE ir3

\* lines 156-173: the dict root
normalize_dict(ir) ==
    LET ir3 == setdefault(setdefault(setdefault(ir, "version", PyInt(1)),
                                     "meta", EmptyDict), "theme", EmptyDict)
        slide == PyDict([id |-> DictGet(ir, "id", PyStr("auto_1")),
                         background |-> DictGet(ir, "background", PyStr("#FFFFFF")),
                         layout |-> DictGet(ir, "layout", PyNone),
                         components |-> ir.dict["components"]])
    IN  IF ~HasKey(ir3, "slides")
        THEN IF HasKey(ir3, "components")
             THEN DictSet(ir3, "slides", PyList(<<slide>>))
             ELSE DictSet(ir3, "slides", PyList(<<>>))
        ELSE ir3

\* variant: a dict root with neither slides nor components is rejected
_normalize_ir_strict(ir) ==
    IF IsList(ir) THEN Returned(normalize_list(ir))
    ELSE IF IsDict(ir) /\ (HasKey(ir, "slides") \/ HasKey(ir, "components"))
    THEN Returned(normalize_dict(ir))
    ELSE Raised

_normalize_ir(ir) ==
    IF IsList(ir) THEN Returned(normalize_list(ir))
    ELSE IF IsDict(ir) THEN Returned(normalize_dict(ir))
    ELSE Raised

(***************************************************************************)
(* The normalizer specification: one raw root, normalized once.            *)
(***************************************************************************)
CompA == PyDict([tool |-> PyStr("x")])

CompB == PyDict([tool |-> PyStr("y"), id |-> PyStr("b"), components |-> PyList(<<>>)])

SlideLike == PyDict([title |-> PyStr("T"), components |-> PyList(<<CompA>>)])

Untyped == PyDict([note |-> PyStr("n")])

RootItems == {CompA, CompB, SlideLike, Untyped, PyInt(7)}

ListRoots == { PyList(l) : l \in UNION { [1..n -> RootItems] : n \in 0..MaxItems } }

\* the values a key of a dict root may carry, when the key is present
RootValues ==
    [version    |-> <<PyInt(2), PyNone>>,
     meta       |-> <<PyDict([title |-> PyStr("Deck")])>>,
     theme      |-> <<PyDict([font_color |-> PyStr("#111111")])>>,
     slides     |-> <<PyList(<<SlideLike>>), PyNone>>,
     components |-> <<PyList(<<CompA, CompB>>)>>,
     id         |-> <<PyStr("s1")>>,
     background |-> <<PyStr("#000000")>>,
     layout     |-> <<PyStr("two_panel_bottom")>>,
     author     |-> <<PyStr("me")>>]

RootKeys == DOMAIN RootValues

\* choice[k] = 0: the key is absent; choice[k] = i: it carries RootValues[k][i]
RootChoices == { c \in [RootKeys -> 0..2] : \A k \in RootKeys : c[k] <= Len(RootValues[k]) }

DictRoots ==
    { PyDict([k \in { x \in RootKeys : c[x] > 0 } |-> RootValues[k][c[k]]]) :
        c \in RootChoices }

OtherRoots == {PyNone, PyInt(3), PyStr("slides")}

NmInit ==
    /\ LayIdle
    /\ RtIdle
    /\ RpIdle
    /\ PgIdle
    /\ nm_pc = "start"
    /\ (nm_raw \in ListRoots \/ nm_raw \in DictRoots \/ nm_raw \in OtherRoots)
    /\ nm_out = <<>>
    /\ nm_again = <<>>

\* ir = _normalize_ir(raw) returns
NormalizeReturns ==
    /\ nm_pc = "start"
    /\ _normalize_ir(nm_raw) # Raised
    /\ nm_out' = _normalize_ir(nm_raw).returned
    /\ nm_pc' = "returned"
    /\ UNCHANGED <<nm_raw, nm_again>>
    /\ UNCHANGED <<lay_vars, rt_vars, rp_vars, pg_vars>>

\* ir = _normalize_ir(raw) raises TypeError
NormalizeRaises ==
    /\ nm_pc = "start"
    /\ _normalize_ir(nm_raw) = Raised
    /\ nm_pc' = "raised"
    /\ UNCHANGED <<nm_raw, nm_out, nm_again>>
    /\ UNCHANGED <<lay_vars, rt_vars, rp_vars, pg_vars>>

\* _normalize_ir called on the IR a first call returned
NormalizeAgain ==
    /\ nm_pc = "returned"
    /\ nm_again' = _normalize_ir(nm_out)
    /\ nm_pc' = "renormalized"
    /\ UNCHANGED <<nm_raw, nm_out>>
    /\ UNCHANGED <<lay_vars, rt_vars, rp_vars, pg_vars>>

NmNext == NormalizeReturns \/ NormalizeRaises \/ NormalizeAgain

SpecNormalize == NmInit /\ [][NmNext]_vars

(***************************************************************************)
(* render.render_presentation: the per-slide render loop.                  *)
(* A component is a dict, modelled as a function over the keys it has.     *)
(* Its data payload is abstracted to what the collaborators make of it:    *)
(* "ok" validates and renders, "invalid" fails the schema, "raises"        *)
(* validates but makes the renderer raise after its first shape (a         *)
(* plain_box whose style.background_color is not a hex colour).            *)
(* "empty" validates and makes the renderer return without a shape (a      *)
(* decompose_boxes whose root is the empty list).                          *)
(* A component id is a record: [explicit |-> s] for the string s, and      *)
(* [tool, slide, comp] for the string "{tool}_{slide}_{comp}".             *)
(* A component that is a YAML scalar instead of a mapping is the record    *)
(* [py_str |-> s].                                                         *)
(***************************************************************************)
\* d.get(k, default)
Get(d, k, default) == IF k \in DOMAIN d THEN d[k] ELSE default

\* the modules under tools/schemas and tools/renderers that the model uses,
\* and the modules directly under tools/ that have a render function (none)
SchemaModules == {"slide_title", "plain_box", "decompose_boxes", "table"}

RendererModules == {"slide_title", "plain_box", "decompose_boxes", "table"}

LegacyModules == {}

\* lines 310-312: the theme of the IR, with font_color defaulted
resolve_theme(theme) ==
    IF "font_color" \in DOMAIN theme THEN theme
    ELSE [k \in DOMAIN theme \cup {"font_color"} |->
             IF k = "font_color" THEN "#000000" ELSE theme[k]]

PlainTheme == [name |-> "default"]

RedTheme == [name |-> "default", font_color |-> "#FF0000"]

\* the repository as it is, and an IR whose theme has no font_color
RepoEnv == [theme |-> resolve_theme(PlainTheme), schemas |-> SchemaModules,
            renderers |-> RendererModules, legacy |-> LegacyModules]

\* the repository with a module for the tool no_such_tool added under
\* tools/schemas, tools/renderers or tools/, in every combination but none,
\* and the repository as it is with an IR whose theme sets font_color
OtherEnvs ==
    ({ [theme |-> resolve_theme(PlainTheme),
       schemas |-> SchemaModules \cup s, renderers |-> RendererModules \cup r,
       legacy |-> LegacyModules \cup l] :
          s \in SUBSET {"no_such_tool"}, r \in SUBSET {"no_such_tool"},
          l \in SUBSET {"no_such_tool"} } \ {RepoEnv})
    \cup {[RepoEnv EXCEPT !.theme = resolve_theme(RedTheme)]}

load_schema(tool_name) == tool_name \in env.schemas

load_renderer(tool_name) == tool_name \in env.renderers

\* variant: the legacy module is never found
load_tool_never(tool_name) == FALSE

load_tool(tool_name) == tool_name \in env.legacy

\* variant: a schema that accepts every payload
schema_accepts_all(tool_name, data) == TRUE

\* schema_class(**raw_data) returns (TRUE) or raises (FALSE)
schema_accepts(tool_name, data) == data # "invalid"

\* renderers that draw into context["shapes_target"] when it is given
HonoursTarget == {"decompose_boxes", "table"}

renderer_raises(tool_name, data) == data = "raises"

Slide == [width |-> 100, height |-> 100]

\* LayoutEngine.resolve(comp): anchor "title" is the top band, anything else
\* without a position is the whole slide
resolve(comp) ==
    IF Get(comp, "anchor", "") = "title"
    THEN [left |-> 0, top |-> 0, width |-> Slide.width, height |-> pct_int(Slide.height, 15)]
    ELSE [left |-> 0, top |-> 0, width |-> Slide.width, height |-> Slide.height]

TwoRoots == [root |-> [parent |-> <<0, 0>>, weight |-> <<NoWeight, NoWeight>>],
             is_list |-> TRUE, column_headers |-> <<>>]

\* the geometry of the shapes a renderer adds for its data, in drawing order
renderer_draws(tool_name, data, geom) ==
    IF data = "empty" THEN <<>>
    ELSE IF tool_name = "decompose_boxes"
    THEN LET bs == box_list(render_layout(TwoRoots, geom))
         IN  [k \in 1..Len(bs) |-> [left |-> bs[k].x, top |-> bs[k].y,
                                   width |-> bs[k].w, height |-> bs[k].h]]
    ELSE <<geom>>

\* shape ids: the next id is one more than the largest id on the slide, whose
\* shape tree itself has id 1
AllShapeIds(shapes) ==
    {1} \cup { shapes[k].shape_id : k \in 1..Len(shapes) }
        \cup UNION { { shapes[k].members[m].shape_id : m \in 1..Len(shapes[k].members) } :
                     k \in 1..Len(shapes) }

SetMax(S) == CHOOSE x \in S : \A y \in S : y <= x

SetMin(S) == CHOOSE x \in S : \A y \in S : x <= y

next_shape_id(shapes) == SetMax(AllShapeIds(shapes)) + 1

\* the colour a renderer leaves on the text of a shape it draws
AsDrawn == "as_drawn"

new_shape(id, kind, g) ==
    [shape_id |-> id, kind |-> kind, left |-> g.left, top |-> g.top,
     width |-> g.width, height |-> g.height, members |-> <<>>, text_color |-> AsDrawn]

\* the shapes made from the geometries `gs`, numbered from `first_id`
make_shapes(gs, first_id) == [k \in 1..Len(gs) |-> new_shape(first_id + k - 1, "shape", gs[k])]

_snapshot_ids(shapes) == { shapes[k].shape_id : k \in 1..Len(shapes) }

\* variant: the snapshot is not consulted
_new_shapes_all(shapes, before_ids) == shapes

_new_shapes(shapes, before_ids) == SelectSeq(shapes, LAMBDA sh : sh.shape_id \notin before_ids)

\* RGBColor(0, 0, 0), the colour render_presentation passes at lines 449 and 476
BLACK == "#000000"

\* the text of every shape gets the colour rgb, groups are entered
RECURSIVE _force_text_color_on_shapes(_, _)
_force_text_color_on_shapes(shapes, rgb) ==
    [k \in 1..Len(shapes) |->
        IF shapes[k].kind = "group"
        THEN [shapes[k] EXCEPT !.members = _force_text_color_on_shapes(shapes[k].members, rgb)]
        ELSE [shapes[k] EXCEPT !.text_color = rgb]]

_bbox(shapes) ==
    IF shapes = <<>> THEN PyNone
    ELSE LET ks == 1..Len(shapes)
             left == SetMin({ shapes[k].left : k \in ks })
             top == SetMin({ shapes[k].top : k \in ks })
         IN  [left |-> left, top |-> top,
              width |-> SetMax({ shapes[k].left + shapes[k].width : k \in ks }) - left,
              height |-> SetMax({ shapes[k].top + shapes[k].height : k \in ks }) - top]

\* sorted(components, key=lambda c: c.get("z_index", 0)): a stable sort
z_key(c) == Get(c, "z_index", 0)

\* variant: c goes in front of the components with an equal key
insert_sorted_before_ties(sorted, c) ==
    LET before == SelectSeq(sorted, LAMBDA e : z_key(e) < z_key(c))
        after == SelectSeq(sorted, LAMBDA e : z_key(e) >= z_key(c))
    IN  before \o <<c>> \o after

insert_sorted(sorted, c) ==
    LET before == SelectSeq(sorted, LAMBDA e : z_key(e) <= z_key(c))
        after == SelectSeq(sorted, LAMBDA e : z_key(e) > z_key(c))
    IN  before \o <<c>> \o after

RECURSIVE sorted_by_z(_)
sorted_by_z(cs) ==
    IF cs = <<>> THEN <<>>
    ELSE insert_sorted(sorted_by_z(SubSeq(cs, 1, Len(cs) - 1)), cs[Len(cs)])

\* lines 331-337; the payload {"title": slide_title} validates, its text is
\* kept under title_text
auto_title_comp(slide_title) ==
    [tool |-> "slide_title", id |-> [explicit |-> "auto_title"], anchor |-> "title",
     z_index |-> -1000, data |-> "ok", title_text |-> slide_title]

\* comp.get(...) works on a mapping only
is_mapping(comp) == "py_str" \notin DOMAIN comp

\* lines 326 and 367 call comp.get on every component (line 326 up to the
\* first slide_title component, line 367 on all of them)
all_mappings(spec) ==
    \A k \in 1..Len(Get(spec, "components", <<>>)) : is_mapping(spec.components[k])

\* variant: the title component is put in front whenever the slide has a title
with_auto_title_always(spec) ==
    LET comps == Get(spec, "components", <<>>)
        slide_title == Get(spec, "title", "")
    IN  IF slide_title # ""
        THEN <<auto_title_comp(slide_title)>> \o comps
        ELSE comps

\* lines 321-338: the components of the slide, with the title component put
\* in front when the slide has a title and no slide_title component
with_auto_title(spec) ==
    LET comps == Get(spec, "components", <<>>)
        slide_title == Get(spec, "title", "")
        has_slide_title == \E k \in 1..Len(comps) : Get(comps[k], "tool", "") = "slide_title"
    IN  IF slide_title # "" /\ ~has_slide_title
        THEN <<auto_title_comp(slide_title)>> \o comps
        ELSE comps

\* comp.get("id") or f"{tool_name}_{slide_idx}_{comp_idx}"
comp_id_of(comp, s_idx, c_idx) ==
    IF "id" \in DOMAIN comp THEN comp["id"]
    ELSE [tool |-> comp["tool"], slide |-> s_idx, comp |-> c_idx]

\* groups[comp_id] = entry
registry_put(reg, id, entry) ==
    [k \in DOMAIN reg \cup {id} |-> IF k = id THEN entry ELSE reg[k]]

(***************************************************************************)
(* The slides and components the loop is run on.                           *)
(***************************************************************************)
Valid == [tool |-> "plain_box", data |-> "ok", z_index |-> 1]

Broken == [tool |-> "plain_box", data |-> "invalid", z_index |-> 0]

Plain == [tool |-> "plain_box", data |-> "ok"]

NamedFlat == [tool |-> "decompose_boxes", data |-> "ok", id |-> [explicit |-> "a"],
              group |-> FALSE]

NamedGroup == [tool |-> "decompose_boxes", data |-> "ok", id |-> [explicit |-> "a"]]

Raiser == [tool |-> "plain_box", data |-> "raises"]

TitleComp == [tool |-> "slide_title", data |-> "ok", z_index |-> 5]

TableComp == [tool |-> "table", data |-> "ok", group |-> TRUE]

Early == [tool |-> "plain_box", data |-> "ok", z_index |-> -2000, group |-> FALSE]

NoTool == [data |-> "ok"]

Empty == [tool |-> "decompose_boxes", data |-> "empty", group |-> FALSE]

Scalar == [py_str |-> "text"]

Unknown == [tool |-> "no_such_tool", data |-> "ok"]

Catalog == {Valid, Broken, Plain, NamedFlat, NamedGroup, Raiser, TitleComp, TableComp,
            Early, NoTool, Unknown, Empty, Scalar}

ComponentLists == UNION { [1..n -> Catalog] : n \in 0..MaxComps }

Titles == {"", "Q1 Results"}

SlideSpecs == { [components |-> cs] : cs \in ComponentLists }
              \cup { [title |-> t, components |-> cs] : t \in Titles, cs \in ComponentLists }

\* the slides rendered in the other environments
EnvCatalog == {Plain, Unknown, NamedGroup, Raiser, Broken, NoTool, Scalar}

EnvSlideSpecs == { [components |-> cs] : cs \in UNION { [1..n -> EnvCatalog] : n \in 0..MaxComps } }

slide_specs(e) == IF e = RepoEnv THEN SlideSpecs ELSE EnvSlideSpecs

NoCur == [tool_name |-> "", comp_id |-> [explicit |-> ""], data |-> "",
          geom |-> PyNone, use_group |-> FALSE, grp_id |-> 0, before_ids |-> {},
          drawn_ids |-> {}, via |-> ""]


Event(c_idx, step) == [comp |-> c_idx, step |-> step]

RpInit ==
    /\ LayIdle
    /\ RtIdle
    /\ NmIdle
    /\ PgIdle
    /\ env = RepoEnv
    /\ rp_pc = "slides"
    /\ slide_idx = 0
    /\ slide_spec = [components |-> <<>>]
    /\ components = <<>>
    /\ comp_idx = 0
    /\ cur = NoCur
    /\ registry = <<>>
    /\ slide_shapes = <<>>
    /\ log = <<>>

\* lines 315-367: the next slide of the IR is taken up: a blank slide, the
\* title component, a fresh context and the sorted component list
BeginSlide ==
    /\ rp_pc = "slides"
    /\ slide_idx < MaxSlides
    /\ \E spec \in slide_specs(env) :
          /\ all_mappings(spec)
          /\ slide_spec' = spec
          /\ components' = sorted_by_z(with_auto_title(spec))
    /\ slide_idx' = slide_idx + 1
    /\ comp_idx' = 0
    /\ cur' = NoCur
    /\ registry' = <<>>
    /\ slide_shapes' = <<>>
    /\ log' = <<>>
    /\ rp_pc' = "loop"
    /\ UNCHANGED env
    /\ UNCHANGED <<lay_vars, rt_vars, nm_vars, pg_vars>>

\* lines 315-367 on a slide with a component that is not a mapping: comp.get
\* raises AttributeError outside every try block and the run ends without
\* reaching prs.save
BeginSlideAborts ==
    /\ rp_pc = "slides"
    /\ slide_idx < MaxSlides
    /\ \E spec \in slide_specs(env) :
          /\ ~all_mappings(spec)
          /\ slide_spec' = spec
    /\ slide_idx' = slide_idx + 1
    /\ rp_pc' = "aborted"
    /\ UNCHANGED <<env, components, comp_idx, cur, registry, slide_shapes, log>>
    /\ UNCHANGED <<lay_vars, rt_vars, nm_vars, pg_vars>>

\* the component the loop takes up next
NextComp == components[comp_idx + 1]

NextTool == Get(NextComp, "tool", "")

HasNext == rp_pc = "loop" /\ comp_idx < Len(components)

\* variant: the component loop is left (break) instead of continued
Skip_leaves_loop(step) ==
    /\ comp_idx' = Len(components)
    /\ log' = Append(log, Event(comp_idx + 1, step))
    /\ rp_pc' = "loop"
    /\ cur' = NoCur
    /\ UNCHANGED <<env, slide_idx, slide_spec, components, registry, slide_shapes>>
    /\ UNCHANGED <<lay_vars, rt_vars, nm_vars, pg_vars>>

\* the component is left: continue with the next one
Skip(step) ==
    /\ comp_idx' = comp_idx + 1
    /\ log' = Append(log, Event(comp_idx + 1, step))
    /\ rp_pc' = "loop"
    /\ cur' = NoCur
    /\ UNCHANGED <<env, slide_idx, slide_spec, components, registry, slide_shapes>>
    /\ UNCHANGED <<lay_vars, rt_vars, nm_vars, pg_vars>>

\* lines 370-373: a component without a tool
SkipNoTool ==
    /\ HasNext
    /\ NextTool = ""
    /\ Skip("skip_no_tool")

\* lines 378-389 and 408-419: neither schema/renderer nor a legacy module
SkipNotLoaded ==
    /\ HasNext
    /\ NextTool # ""
    /\ ~load_tool(NextTool)
    /\ load_schema(NextTool) =>
          /\ schema_accepts(NextTool, Get(NextComp, "data", "ok"))
          /\ ~load_renderer(NextTool)
    /\ Skip("skip_not_loaded")

\* lines 393-405: the data fails the schema
SkipInvalid ==
    /\ HasNext
    /\ NextTool # ""
    /\ load_schema(NextTool)
    /\ ~schema_accepts(NextTool, Get(NextComp, "data", "ok"))
    /\ Skip("skip_invalid")

\* lines 370-421: there is no schema and the legacy module loads (the data
\* is then taken as it is and the legacy module renders), or the data
\* validates against the schema and the renderer loads, or the legacy module
\* in its place
Validate ==
    /\ HasNext
    /\ NextTool # ""
    /\ IF load_schema(NextTool)
       THEN /\ schema_accepts(NextTool, Get(NextComp, "data", "ok"))
            /\ load_renderer(NextTool) \/ load_tool(NextTool)
       ELSE load_tool(NextTool)
    /\ comp_idx' = comp_idx + 1
    /\ cur' = [NoCur EXCEPT !.tool_name = NextTool,
                            !.comp_id = comp_id_of(NextComp, slide_idx, comp_idx + 1),
                            !.data = Get(NextComp, "data", "ok"),
                            !.via = IF load_schema(NextTool) /\ load_renderer(NextTool)
                                    THEN "renderer" ELSE "legacy"]
    /\ log' = Append(log, Event(comp_idx + 1,
                                IF load_schema(NextTool) THEN "validated" ELSE "unvalidated"))
    /\ rp_pc' = "resolve"
    /\ UNCHANGED <<env, slide_idx, slide_spec, components, registry, slide_shapes>>
    /\ UNCHANGED <<lay_vars, rt_vars, nm_vars, pg_vars>>

\* lines 424-429: the geometry and the grouping mode
Resolve ==
    /\ rp_pc = "resolve"
    /\ cur' = [cur EXCEPT !.geom = resolve(components[comp_idx]),
                          !.use_group = IF cur.tool_name = "table" THEN FALSE
                                        ELSE Get(components[comp_idx], "group", TRUE)]
    /\ log' = Append(log, Event(comp_idx, "resolved"))
    /\ rp_pc' = "dispatch"
    /\ UNCHANGED <<env, slide_idx, slide_spec, components, comp_idx, registry, slide_shapes>>
    /\ UNCHANGED <<lay_vars, rt_vars, nm_vars, pg_vars>>

\* the slide's shapes after the group (when grouped) is created and the
\* renderer has drawn `gs`
shapes_after_render(shapes, tool_name, use_group, geom, gs) ==
    LET first == next_shape_id(shapes)
    IN  IF use_group
        THEN IF tool_name \in HonoursTarget
             THEN Append(shapes, [new_shape(first, "group", geom)
                                    EXCEPT !.members = make_shapes(gs, first + 1)])
             ELSE Append(shapes, new_shape(first, "group", geom)) \o make_shapes(gs, first + 1)
        ELSE shapes \o make_shapes(gs, first)

\* lines 430-446 and 466-472, the renderer returns
Dispatch ==
    /\ rp_pc = "dispatch"
    /\ ~renderer_raises(cur.tool_name, cur.data)
    /\ slide_shapes' = shapes_after_render(slide_shapes, cur.tool_name, cur.use_group, cur.geom,
                                           renderer_draws(cur.tool_name, cur.data, cur.geom))
    /\ cur' = [cur EXCEPT !.grp_id = IF cur.use_group THEN next_shape_id(slide_shapes) ELSE 0,
                          !.before_ids = IF cur.use_group THEN {}
                                         ELSE _snapshot_ids(slide_shapes),
                          !.drawn_ids = AllShapeIds(slide_shapes') \
                                            (AllShapeIds(slide_shapes)
                                               \cup (IF cur.use_group
                                                     THEN {next_shape_id(slide_shapes)}
                                                     ELSE {}))]
    /\ log' = Append(log, Event(comp_idx, "dispatched"))
    /\ rp_pc' = "register"
    /\ UNCHANGED <<env, slide_idx, slide_spec, components, comp_idx, registry>>
    /\ UNCHANGED <<lay_vars, rt_vars, nm_vars, pg_vars>>

\* variant: the exception of the renderer leaves render_presentation
DispatchRaises_propagates ==
    /\ rp_pc = "dispatch"
    /\ renderer_raises(cur.tool_name, cur.data)
    /\ slide_shapes' = slide_shapes
    /\ log' = Append(log, [comp |-> comp_idx, step |-> "raised"])
    /\ rp_pc' = "aborted"
    /\ UNCHANGED <<env, slide_idx, slide_spec, components, comp_idx, cur, registry>>
    /\ UNCHANGED <<lay_vars, rt_vars, nm_vars, pg_vars>>

\* lines 430-446 and 466-472, the renderer raises after its first shape; the
\* exception is caught at line 486 and the loop goes on
DispatchRaises ==
    /\ rp_pc = "dispatch"
    /\ renderer_raises(cur.tool_name, cur.data)
    /\ slide_shapes' = shapes_after_render(slide_shapes, cur.tool_name, cur.use_group, cur.geom,
                                           SubSeq(renderer_draws(cur.tool_name, cur.data, cur.geom), 1, 1))
    /\ log' = Append(log, Event(comp_idx, "raised"))
    /\ cur' = NoCur
    /\ rp_pc' = "loop"
    /\ UNCHANGED <<env, slide_idx, slide_spec, components, comp_idx, registry>>
    /\ UNCHANGED <<lay_vars, rt_vars, nm_vars, pg_vars>>

\* the registry entry of the component: the group and its members (lines
\* 451-462), or the shapes added since the snapshot (lines 473-484)
entry_for(shapes, c) ==
    IF c.use_group
    THEN LET grp == CHOOSE sh \in { shapes[k] : k \in 1..Len(shapes) } :
                       sh.shape_id = c.grp_id
         IN  [tool |-> c.tool_name,
              shape_ids |-> <<grp.shape_id>> \o
                            [m \in 1..Len(grp.members) |-> grp.members[m].shape_id],
              bbox |-> c.geom, is_group |-> TRUE]
    ELSE LET new_shapes == _new_shapes(shapes, c.before_ids)
         IN  [tool |-> c.tool_name,
              shape_ids |-> [k \in 1..Len(new_shapes) |-> new_shapes[k].shape_id],
              bbox |-> _bbox(new_shapes), is_group |-> FALSE]

\* lines 449 and 476: the text of the members of the group, or of the shapes
\* added since the snapshot, is set to black
shapes_after_force(shapes, c) ==
    [k \in 1..Len(shapes) |->
        IF c.use_group
        THEN IF shapes[k].shape_id = c.grp_id
             THEN [shapes[k] EXCEPT
                      !.members = _force_text_color_on_shapes(shapes[k].members, BLACK)]
             ELSE shapes[k]
        ELSE IF shapes[k].shape_id \in c.before_ids THEN shapes[k]
             ELSE _force_text_color_on_shapes(<<shapes[k]>>, BLACK)[1]]

\* lines 448-462 and 473-484: the text colour is forced and the registry
\* entry of the component is written
RegistryUpdate ==
    /\ rp_pc = "register"
    /\ slide_shapes' = shapes_after_force(slide_shapes, cur)
    /\ registry' = registry_put(registry, cur.comp_id,
                                entry_for(slide_shapes', cur))
    /\ log' = Append(log, Event(comp_idx, "registered"))
    /\ cur' = NoCur
    /\ rp_pc' = "loop"
    /\ UNCHANGED <<env, slide_idx, slide_spec, components, comp_idx>>
    /\ UNCHANGED <<lay_vars, rt_vars, nm_vars, pg_vars>>

\* the component loop of the slide is exhausted: the slide, its component
\* list and its context (lines 318, 321 and 358) go out of use
EndSlide ==
    /\ rp_pc = "loop"
    /\ comp_idx = Len(components)
    /\ rp_pc' = "slides"
    /\ slide_spec' = [components |-> <<>>]
    /\ components' = <<>>
    /\ comp_idx' = 0
    /\ registry' = <<>>
    /\ slide_shapes' = <<>>
    /\ log' = <<>>
    /\ UNCHANGED <<env, slide_idx, cur>>
    /\ UNCHANGED <<lay_vars, rt_vars, nm_vars, pg_vars>>

\* lines 491-492: no slide is left, the presentation is saved
Save ==
    /\ rp_pc = "slides"
    /\ rp_pc' = "saved"
    /\ UNCHANGED <<env, slide_idx, slide_spec, components, comp_idx, cur, registry,
                   slide_shapes, log>>
    /\ UNCHANGED <<lay_vars, rt_vars, nm_vars, pg_vars>>

RpNext ==
    \/ BeginSlide
    \/ BeginSlideAborts
    \/ SkipNoTool
    \/ SkipNotLoaded
    \/ SkipInvalid
    \/ Validate
    \/ Resolve
    \/ Dispatch
    \/ DispatchRaises
    \/ RegistryUpdate
    \/ EndSlide
    \/ Save

SpecRender == RpInit /\ [][RpNext]_vars

\* the same run in the other environments
RpEnvInit ==
    /\ LayIdle
    /\ RtIdle
    /\ NmIdle
    /\ PgIdle
    /\ env \in OtherEnvs
    /\ rp_pc = "slides"
    /\ slide_idx = 0
    /\ slide_spec = [components |-> <<>>]
    /\ components = <<>>
    /\ comp_idx = 0
    /\ cur = NoCur
    /\ registry = <<>>
    /\ slide_shapes = <<>>
    /\ log = <<>>

SpecRenderEnv == RpEnvInit /\ [][RpNext]_vars

(***************************************************************************)
(* Percent boxes: tools/utils.parse_geom and component_diagram._rel_to_abs. *)
(* Both compute int(total * (pct / 100.0)) in double precision. On the     *)
(* values below the double product equals the exact one except for the     *)
(* pairs of RoundsBelow, where pct / 100.0 is a double just below the      *)
(* fraction and the product falls short of the integer (int(100 * 0.29) is *)
(* 28).                                                                    *)
(***************************************************************************)
Pcts == {0, 1, 29, 50, 57, 100}

Totals == (0..MaxTotal) \cup {100}

RoundsBelow == {<<100, 29>>, <<100, 57>>}

\* variant: the percentage is measured from the far edge
pct_to_emu_from_far_edge(pct, total_emu) == (total_emu * (pct - 100)) \div 100

\* int(total_emu * (pct / 100.0)); the operands are not negative, so int()
\* truncates downwards
pct_to_emu(pct, total_emu) ==
    (total_emu * pct) \div 100 - (IF <<total_emu, pct>> \in RoundsBelow THEN 1 ELSE 0)

parse_geom(pos_pct, prs) ==
    [left |-> pct_to_emu(pos_pct.x, prs.slide_width),
     top |-> pct_to_emu(pos_pct.y, prs.slide_height),
     width |-> pct_to_emu(pos_pct.w, prs.slide_width),
     height |-> pct_to_emu(pos_pct.h, prs.slide_height)]

_rel_to_abs(geom, rel) ==
    [x |-> geom.left + pct_to_emu(rel.x, geom.width),
     y |-> geom.top + pct_to_emu(rel.y, geom.height),
     w |-> pct_to_emu(rel.w, geom.width),
     h |-> pct_to_emu(rel.h, geom.height)]

PercentBoxes == [x : {0, 50, 100}, y : {0, 100}, w : Pcts, h : Pcts]

ParentBoxes == [left : {0, 2}, top : {0}, width : Totals, height : Totals]

PgInit ==
    /\ LayIdle
    /\ RtIdle
    /\ NmIdle
    /\ RpIdle
    /\ pg_pc = "start"
    /\ pg_pct \in PercentBoxes
    /\ pg_parent \in ParentBoxes
    /\ pg_geom = PyNone
    /\ pg_abs = PyNone

ParseGeom ==
    /\ pg_pc = "start"
    /\ pg_geom' = parse_geom(pg_pct, [slide_width |-> pg_parent.width,
                                      slide_height |-> pg_parent.height])
    /\ pg_pc' = "parsed"
    /\ UNCHANGED <<pg_pct, pg_parent, pg_abs>>
    /\ UNCHANGED <<lay_vars, rt_vars, nm_vars, rp_vars>>

RelToAbs ==
    /\ pg_pc = "parsed"
    /\ pg_abs' = _rel_to_abs(pg_parent, pg_pct)
    /\ pg_pc' = "done"
    /\ UNCHANGED <<pg_pct, pg_parent, pg_geom>>
    /\ UNCHANGED <<lay_vars, rt_vars, nm_vars, rp_vars>>

PgNext ==
    \/ ParseGeom
    \/ RelToAbs

SpecGeom == PgInit /\ [][PgNext]_vars

(***************************************************************************)
(* Properties of the decompose_boxes layout.                               *)
(***************************************************************************)
\* position in boxes / layout_calls of the entry of a node
EntryOf(node) == CHOOSE k \in 1..Len(boxes) : boxes[k].node = node

NodesOf(f) == 1..Len(f.parent)

\* the quantities of the level, written out from the geometry
GapY == (lay_geom.height * 1) \div 100

HeaderBand == IF lay_data.column_headers # <<>> THEN (lay_geom.height * 8) \div 100 ELSE 0

ContentTop == lay_geom.top + HeaderBand

ContentH == lay_geom.height - HeaderBand

LevelGap(h, n) == IF h - GapY * (n - 1) < 0 THEN 0 ELSE GapY

\* heights handed to the siblings `kids`, and the gaps left between them
AssignedH(kids) == [k \in 1..Len(kids) |-> layout_calls[EntryOf(kids[k])].h]

PlacedGaps(kids) ==
    [k \in 1..(Len(kids) - 1) |->
        layout_calls[EntryOf(kids[k + 1])].y
        - (layout_calls[EntryOf(kids[k])].y + layout_calls[EntryOf(kids[k])].h)]

LevelExact(kids, y, h) ==
    /\ layout_calls[EntryOf(kids[1])].y = y
    /\ \A k \in 1..(Len(kids) - 1) : PlacedGaps(kids)[k] = LevelGap(h, Len(kids))
    /\ SeqSum(AssignedH(kids)) + SeqSum(PlacedGaps(kids)) = h

\* C1: at every level the heights handed to the siblings plus the gaps placed
\* between them add up exactly to the extent that is divided: the content
\* height for a list of roots, the height of the parent's box for children.
C1_LevelSumExact ==
    lay_pc = "done" =>
        /\ (lay_data.is_list /\ children(root_data, 0) # <<>>) =>
               LevelExact(children(root_data, 0), ContentTop, ContentH)
        /\ \A p \in NodesOf(root_data) :
               children(root_data, p) # <<>> =>
                   LevelExact(children(root_data, p),
                              boxes[EntryOf(p)].y, boxes[EntryOf(p)].h)

\* a level of three siblings with a gap of 1 between them whose last sibling
\* took a remainder different from the first sibling's share
C1_Witness ==
    /\ lay_pc = "done"
    /\ \E p \in NodesOf(root_data) :
          LET kids == children(root_data, p)
          IN  /\ Len(kids) >= 3
              /\ PlacedGaps(kids)[1] = 1
              /\ AssignedH(kids)[Len(kids)] # AssignedH(kids)[1]
              /\ AssignedH(kids)[1] > 0

\* C2: no box of the layout has a negative height.
C2_NoNegativeHeight == \A k \in 1..Len(boxes) : boxes[k].h >= 0

\* C3: on the orchestrator's path (schema validation, then render) every
\* sibling but the last gets the share of the usable height that its declared
\* weight has in the sum of the declared weights, when the declared weights
\* of the level are positive and not all the same.
DeclaredW(kids) == [k \in 1..Len(kids) |-> lay_data.root.weight[kids[k]][1]]

DeclaredLevelOk(kids, h) ==
    LET n == Len(kids)
        usable == IF h - GapY * (n - 1) < 0 THEN h ELSE h - GapY * (n - 1)
        dw == DeclaredW(kids)
    IN  ((\A k \in 1..n : dw[k] > 0) /\ (\E k \in 1..n : dw[k] # dw[1])) =>
            \A k \in 1..(n - 1) :
                AssignedH(kids)[k] = py_round(usable * dw[k], SeqSum(dw))

C3_ProportionalToDeclared ==
    (lay_pc = "done" /\ lay_schema) =>
        /\ (lay_data.is_list /\ children(root_data, 0) # <<>>) =>
               DeclaredLevelOk(children(root_data, 0), ContentH)
        /\ \A p \in NodesOf(root_data) :
               children(root_data, p) # <<>> =>
                   DeclaredLevelOk(children(root_data, p), boxes[EntryOf(p)].h)

\* C4: a single root without children gives exactly one box, in column 0, at
\* the top of the content band and as high as the content band.
C4_SingleLeafRoot ==
    (lay_pc = "done" /\ Len(root_data.parent) = 1) =>
        /\ Len(boxes) = 1
        /\ boxes[1].col = 0
        /\ boxes[1].y = ContentTop
        /\ boxes[1].h = ContentH

\* a lone leaf root below a header band, given as a list of one root
C4_Witness ==
    /\ lay_pc = "done"
    /\ Len(root_data.parent) = 1
    /\ lay_data.is_list
    /\ HeaderBand > 0
    /\ Len(boxes) = 1

(***************************************************************************)
(* Properties of the connector router.                                     *)
(***************************************************************************)
Mirror(sites) == <<sites[2], sites[1]>>

\* C5: when the connector from a to b is a straight one (rule 1 or rule 2),
\* the connector from b to a has the same style, the mirrored site pair and
\* the start and end points exchanged.
C5_SwapSymmetric ==
    (rt_ab # <<>> /\ rt_ba # <<>> /\ rt_ab.style = STRAIGHT) =>
        /\ rt_ba.style = rt_ab.style
        /\ rt_ba.sites = Mirror(rt_ab.sites)
        /\ rt_ba.start = rt_ab.end
        /\ rt_ba.end = rt_ab.start

\* C6: two boxes with the same center are connected by an elbow.
SameCenter(a, b) == 2 * a.x + a.w = 2 * b.x + b.w /\ 2 * a.y + a.h = 2 * b.y + b.h

C6_SameCenterElbow ==
    (rt_ab # <<>> /\ SameCenter(rt_a, rt_b)) => rt_ab.style = ELBOW

(***************************************************************************)
(* Properties of the IR normalizer.                                        *)
(***************************************************************************)
ComponentLike(v) == IsDict(v) /\ HasKey(v, "tool")

CanonicalKeys == {"version", "meta", "theme", "slides"}

\* `out` has exactly one slide and its components are `comps`
OneSlideWith(out, comps) ==
    /\ IsDict(out)
    /\ HasKey(out, "slides")
    /\ IsList(out.dict["slides"])
    /\ Len(out.dict["slides"].list) = 1
    /\ IsDict(out.dict["slides"].list[1])
    /\ HasKey(out.dict["slides"].list[1], "components")
    /\ out.dict["slides"].list[1].dict["components"] = comps

\* C7: a bare list of component-like dicts, or a dict with components and
\* without slides, is normalized to one slide that carries exactly the given
\* components in the given order.
C7_WrapsComponents ==
    nm_pc = "returned" =>
        /\ (/\ IsList(nm_raw)
            /\ nm_raw.list # <<>>
            /\ \A k \in 1..Len(nm_raw.list) : ComponentLike(nm_raw.list[k]))
               => OneSlideWith(nm_out, nm_raw)
        /\ (IsDict(nm_raw) /\ HasKey(nm_raw, "components") /\ ~HasKey(nm_raw, "slides"))
               => OneSlideWith(nm_out, nm_raw.dict["components"])

\* a list of two component dicts whose first one also has a "components" key
C7_Witness ==
    /\ nm_pc = "returned"
    /\ IsList(nm_raw)
    /\ Len(nm_raw.list) = 2
    /\ \A k \in 1..2 : ComponentLike(nm_raw.list[k])
    /\ HasKey(nm_raw.list[1], "components")
    /\ OneSlideWith(nm_out, nm_raw)

\* C8: for a dict root every key that is present keeps its value, and the
\* only keys added are the absent ones of version, meta, theme and slides,
\* with 1, {}, {} and [] (or the one wrapped slide) as their values.
C8_DictRootFrame ==
    (nm_pc = "returned" /\ IsDict(nm_raw)) =>
        /\ IsDict(nm_out)
        /\ DOMAIN nm_out.dict = DOMAIN nm_raw.dict \cup CanonicalKeys
        /\ \A k \in DOMAIN nm_raw.dict : nm_out.dict[k] = nm_raw.dict[k]
        /\ ~HasKey(nm_raw, "version") => nm_out.dict["version"] = PyInt(1)
        /\ ~HasKey(nm_raw, "meta") => nm_out.dict["meta"] = EmptyDict
        /\ ~HasKey(nm_raw, "theme") => nm_out.dict["theme"] = EmptyDict
        /\ ~HasKey(nm_raw, "slides") =>
               IF HasKey(nm_raw, "components")
               THEN OneSlideWith(nm_out, nm_raw.dict["components"])
               ELSE nm_out.dict["slides"] = PyList(<<>>)

\* a dict root with a null version and with components, lacking meta, theme, slides
C8_Witness ==
    /\ nm_pc = "returned"
    /\ IsDict(nm_raw)
    /\ HasKey(nm_raw, "version")
    /\ nm_raw.dict["version"] = PyNone
    /\ HasKey(nm_raw, "components")
    /\ DOMAIN nm_raw.dict \cap {"meta", "theme", "slides"} = {}
    /\ nm_out.dict["version"] = PyNone

\* C9: the normalizer raises exactly for a root that is neither a list nor a
\* dict; every list and every dict comes back as a dict with version, meta,
\* theme and slides.
C9_RaisesOnlyForOtherRoots ==
    nm_pc # "start" =>
        /\ (nm_pc = "raised") <=> ~(IsList(nm_raw) \/ IsDict(nm_raw))
        /\ nm_pc = "returned" => (IsDict(nm_out) /\ CanonicalKeys \subseteq DOMAIN nm_out.dict)

\* a dict root that has neither slides nor components came back normalized
C9_Witness ==
    /\ nm_pc = "returned"
    /\ IsDict(nm_raw)
    /\ ~HasKey(nm_raw, "slides")
    /\ ~HasKey(nm_raw, "components")
    /\ nm_out.dict["slides"] = PyList(<<>>)

(***************************************************************************)
(* Properties of the render loop.                                          *)
(***************************************************************************)
Done(k, step) == \E e \in 1..Len(log) : log[e] = [comp |-> k, step |-> step]

\* every component of the slide has been taken up and left
SlideFinished == rp_pc = "loop" /\ comp_idx = Len(components)

Validated == {"slide_title", "plain_box", "decompose_boxes", "table"}

\* the component at position k has a schema and its data fails it
IsInvalid(k) ==
    /\ Get(components[k], "tool", "") \in Validated
    /\ Get(components[k], "data", "ok") = "invalid"

\* the component at position k validates and its renderer returns
IsHealthy(k) ==
    /\ Get(components[k], "tool", "") \in Validated
    /\ Get(components[k], "data", "ok") = "ok"

IdAt(k) == IF "id" \in DOMAIN components[k] THEN components[k]["id"]
           ELSE [tool |-> Get(components[k], "tool", ""), slide |-> slide_idx, comp |-> k]

\* C10: a component whose data fails its schema is never dispatched and
\* writes no registry entry, every component that validates and renders is
\* dispatched and registered all the same, and the slide [valid (z_index 1),
\* broken (z_index 0)] ends with the one registry entry of valid.
C10_InvalidSkippedOthersRendered ==
    /\ \A k \in 1..Len(components) :
          IsInvalid(k) =>
              /\ ~Done(k, "dispatched")
              /\ ~Done(k, "registered")
              /\ (\A j \in 1..Len(components) : j # k => IdAt(j) # IdAt(k))
                     => IdAt(k) \notin DOMAIN registry
    /\ SlideFinished =>
          \A k \in 1..Len(components) :
              IsHealthy(k) =>
                  /\ Done(k, "dispatched")
                  /\ Done(k, "registered")
                  /\ IdAt(k) \in DOMAIN registry
    /\ (SlideFinished /\ slide_spec = [components |-> <<Valid, Broken>>]) =>
          /\ DOMAIN registry = {[tool |-> "plain_box", slide |-> slide_idx, comp |-> 2]}
          /\ registry[[tool |-> "plain_box", slide |-> slide_idx, comp |-> 2]].tool = "plain_box"

\* the slide [valid, broken] is finished: broken was skipped first, valid was
\* registered after it
C10_Witness ==
    /\ SlideFinished
    /\ slide_spec = [components |-> <<Valid, Broken>>]
    /\ Done(1, "skip_invalid")
    /\ Done(2, "registered")
    /\ Cardinality(DOMAIN registry) = 1

\* the component at position k has been taken up and left
Left(k) ==
    \E step \in {"skip_no_tool", "skip_not_loaded", "skip_invalid", "raised", "registered"} :
        Done(k, step)

UniqueId(k) == \A j \in 1..Len(components) : j # k => IdAt(j) # IdAt(k)

\* the step being taken is the renderer of the current component raising
RaiseStep ==
    /\ rp_pc = "dispatch"
    /\ Len(log') = Len(log) + 1
    /\ log'[Len(log')] = [comp |-> comp_idx, step |-> "raised"]

\* C11: when the renderer of a component raises, the exception is caught: the
\* run goes on with the component loop and never aborts, the component gets
\* no registry entry and the registry is left as it was, every component of
\* the slide has been taken up when the loop ends, and the run then goes
\* back to the loop over the slides.
C11_RendererRaiseIsContained ==
    /\ [][RaiseStep => /\ rp_pc' = "loop"
                       /\ comp_idx' = comp_idx
                       /\ registry' = registry]_vars
    /\ [](\A k \in 1..Len(components) :
             Done(k, "raised") =>
                 /\ rp_pc # "aborted"
                 /\ ~Done(k, "registered")
                 /\ UniqueId(k) => IdAt(k) \notin DOMAIN registry
                 /\ SlideFinished => (\A j \in 1..Len(components) : Left(j))
                                      /\ ENABLED EndSlide)

\* a renderer raised on the first component and the second one was rendered
\* and registered after it
C11_Witness ==
    /\ SlideFinished
    /\ Len(components) = 2
    /\ Done(1, "raised")
    /\ Done(2, "registered")
    /\ DOMAIN registry = {IdAt(2)}

\* a slide is being rendered
InSlide == rp_pc \in {"loop", "resolve", "dispatch", "register"}

Declared == slide_spec.components

\* number of positions of the sequence cs that hold c
Count(cs, c) == Cardinality({ k \in 1..Len(cs) : cs[k] = c })

SameComponents(cs, ds) ==
    /\ Len(cs) = Len(ds)
    /\ \A k \in 1..Len(cs) : Count(cs, cs[k]) = Count(ds, cs[k])

\* the slide has a non-empty title and declares no slide_title component
WantsTitle ==
    /\ "title" \in DOMAIN slide_spec
    /\ slide_spec.title # ""
    /\ \A k \in 1..Len(Declared) : Get(Declared[k], "tool", "") # "slide_title"

Synthesized(c) == "title_text" \in DOMAIN c

\* C12: a slide with a non-empty title and no slide_title component is
\* rendered with exactly one synthesized component (tool slide_title,
\* z_index -1000, the title as data) next to its declared components; any
\* other slide is rendered with exactly its declared components.
C12_AutoTitleInjection ==
    InSlide =>
        LET synth == { k \in 1..Len(components) : Synthesized(components[k]) }
            rest == SelectSeq(components, LAMBDA c : ~Synthesized(c))
        IN  /\ SameComponents(rest, Declared)
            /\ Cardinality(synth) = IF WantsTitle THEN 1 ELSE 0
            /\ \A k \in synth :
                  /\ components[k].tool = "slide_title"
                  /\ components[k].z_index = -1000
                  /\ components[k].title_text = slide_spec.title

\* the slide {title: "Q1 Results", components: []} has been rendered with
\* the synthesized title as its only component
C12_Witness ==
    /\ SlideFinished
    /\ slide_spec = [title |-> "Q1 Results", components |-> <<>>]
    /\ Len(components) = 1
    /\ Done(1, "registered")

\* C13: once _normalize_ir has returned (the root was a list or a dict), the
\* run never ends before the save step, whatever the slides and components
\* contain.
C13_OnlyRootAborts == rp_pc # "aborted"

\* the shapes of the slide, the members of its groups included
AllShapes ==
    { slide_shapes[k] : k \in 1..Len(slide_shapes) }
        \cup UNION { { slide_shapes[k].members[m] : m \in 1..Len(slide_shapes[k].members) } :
                     k \in 1..Len(slide_shapes) }

Encloses(bbox, sh) ==
    /\ bbox # PyNone
    /\ bbox.left <= sh.left
    /\ bbox.top <= sh.top
    /\ sh.left + sh.width <= bbox.left + bbox.width
    /\ sh.top + sh.height <= bbox.top + bbox.height

\* C14: when the registry entry of a component is written, its shape_ids
\* hold the id of every shape that the component's renderer created, grouped
\* or not, and its bbox encloses every one of those shapes.
C14_EntryListsAllShapes ==
    [][rp_pc = "register" =>
          LET entry == registry'[cur.comp_id]
              ids == { entry.shape_ids[k] : k \in 1..Len(entry.shape_ids) }
          IN  /\ cur.drawn_ids \subseteq ids
              /\ \A sh \in AllShapes : sh.shape_id \in cur.drawn_ids => Encloses(entry.bbox, sh)]_vars

\* the positions in log of the renderer calls made so far on the slide
Dispatches == { e \in 1..Len(log) : log[e].step \in {"dispatched", "raised"} }

\* C16: on a slide for which a title component is synthesized, the first
\* renderer call is the one for the synthesized component, whatever z_index
\* the declared components have.
C16_TitleDispatchedFirst ==
    (InSlide /\ WantsTitle) =>
        \A e \in Dispatches :
            (\A d \in Dispatches : e <= d) => Synthesized(components[log[e].comp])

ZOf(c) == IF "z_index" \in DOMAIN c THEN c.z_index ELSE 0

\* the components of cs with z_index v, in the order of cs
WithZ(cs, v) == SelectSeq(cs, LAMBDA c : ZOf(c) = v)

\* C17: the renderers of a slide are called in ascending z_index order, a
\* missing z_index counting as 0, and components with equal z_index are
\* taken in the order of the slide's component list.
C17_AscendingStableOrder ==
    InSlide =>
        /\ \A i, j \in 1..Len(components) :
              i < j => ZOf(components[i]) <= ZOf(components[j])
        /\ \A k \in 1..Len(Declared) :
              WithZ(SelectSeq(components, LAMBDA c : ~Synthesized(c)), ZOf(Declared[k]))
                  = WithZ(Declared, ZOf(Declared[k]))
        /\ \A d, e \in Dispatches : d < e => log[d].comp < log[e].comp

\* [valid (z_index 1), plain (no z_index)] was rendered plain first
C17_Witness ==
    /\ SlideFinished
    /\ Declared = <<Valid, Plain>>
    /\ components = <<Plain, Valid>>
    /\ \E d, e \in Dispatches : d < e /\ log[d].comp = 1 /\ log[e].comp = 2

\* the steps logged for the component at position k, in order
StepsOf(k) ==
    LET evs == SelectSeq(log, LAMBDA e : e.comp = k)
    IN  [i \in 1..Len(evs) |-> evs[i].step]

Prefixes(seq) == { SubSeq(seq, 1, n) : n \in 0..Len(seq) }

Skips == {<<"skip_no_tool">>, <<"skip_not_loaded">>, <<"skip_invalid">>}

\* C18 as stated: every component goes through geometry resolution, schema
\* validation, renderer dispatch and registry update in this order, a step
\* being reached only after the previous one succeeded.
C18_ResolveValidateDispatchRegister ==
    \A k \in 1..Len(components) :
        StepsOf(k) \in Prefixes(<<"resolved", "validated", "dispatched", "registered">>)
                         \cup Prefixes(<<"resolved", "validated", "raised">>)
                         \cup Prefixes(<<"resolved", "skip_invalid">>)
                         \cup Skips

\* C18 amended: every component goes through schema validation, geometry
\* resolution, renderer dispatch and registry update in this order, a step
\* being reached only after the previous one succeeded: a component whose
\* data fails validation is neither resolved nor dispatched, and a component
\* whose renderer raised is not registered.
C18_ValidateResolveDispatchRegister ==
    \A k \in 1..Len(components) :
        /\ StepsOf(k) \in Prefixes(<<"validated", "resolved", "dispatched", "registered">>)
                            \cup Prefixes(<<"validated", "resolved", "raised">>)
                            \cup Skips
        /\ IsInvalid(k) => StepsOf(k) \in {<<>>, <<"skip_invalid">>}
        /\ Done(k, "registered") => k \in { log[e].comp : e \in Dispatches }

\* a component went through all four steps and the one after it stopped at
\* the renderer
C18_Witness ==
    /\ SlideFinished
    /\ Len(components) = 2
    /\ StepsOf(1) = <<"validated", "resolved", "dispatched", "registered">>
    /\ StepsOf(2) = <<"validated", "resolved", "raised">>

\* C19: within the render pass of one slide a registry entry, once written,
\* stays in the registry unchanged, whatever ids the components have.
C19_EntriesNeverOverwritten ==
    [][(InSlide /\ rp_pc' \in {"loop", "resolve", "dispatch", "register"}) =>
          \A id \in DOMAIN registry :
              id \in DOMAIN registry' /\ registry'[id] = registry[id]]_vars

\* bbox is the smallest rectangle that contains the shapes shs
SmallestAround(bbox, shs) ==
    /\ \A sh \in shs : Encloses(bbox, sh)
    /\ \E sh \in shs : sh.left = bbox.left
    /\ \E sh \in shs : sh.top = bbox.top
    /\ \E sh \in shs : sh.left + sh.width = bbox.left + bbox.width
    /\ \E sh \in shs : sh.top + sh.height = bbox.top + bbox.height

\* C20: the registry entry written for a component rendered ungrouped lists
\* exactly the ids of the shapes that are on the slide after the renderer
\* call and were not there before it, each once, and its bbox is the
\* smallest rectangle around those shapes, or None when there is none.
C20_UngroupedEntryIsDiff ==
    [][(rp_pc = "register" /\ ~cur.use_group) =>
          LET entry == registry'[cur.comp_id]
              ids == { entry.shape_ids[k] : k \in 1..Len(entry.shape_ids) }
              made == { sh \in AllShapes : sh.shape_id \in cur.drawn_ids }
          IN  /\ entry.is_group = FALSE
              /\ ids = cur.drawn_ids
              /\ Len(entry.shape_ids) = Cardinality(ids)
              /\ IF made = {} THEN entry.bbox = PyNone
                              ELSE SmallestAround(entry.bbox, made)]_vars

\* an ungrouped decompose_boxes was registered with its two boxes on a slide
\* that already held the shapes of another component
C20_Witness ==
    /\ SlideFinished
    /\ Declared = <<Plain, NamedFlat>>
    /\ Len(slide_shapes) = 4
    /\ [explicit |-> "a"] \in DOMAIN registry
    /\ Len(registry[[explicit |-> "a"]].shape_ids) = 2
    /\ registry[[explicit |-> "a"]].is_group = FALSE

\* the colours of the text of the shapes, the members of groups included
RECURSIVE text_colors(_)
text_colors(shapes) ==
    UNION { IF shapes[k].kind = "group" THEN text_colors(shapes[k].members)
            ELSE {shapes[k].text_color} : k \in 1..Len(shapes) }

\* the step being taken completes a component that was drawn into a group
GroupedRegisterStep == rp_pc = "register" /\ rp_pc' = "loop" /\ cur.use_group

\* the colours of the text inside the container group of the component c
GroupTextColors(shapes, c) ==
    UNION { text_colors(shapes[k].members) :
            k \in { j \in 1..Len(shapes) : shapes[j].shape_id = c.grp_id } }

\* C21: when a grouped component has been dispatched, all the text inside its
\* container group, at any depth, has the resolved font_color of the theme.
C21_GroupTextHasThemeColor ==
    [][GroupedRegisterStep =>
          GroupTextColors(slide_shapes', cur) \subseteq {env.theme.font_color}]_vars

\* C28: a component whose renderer raises leaves no shape on the slide: after
\* the failed dispatch the shapes of the slide are those it had before the
\* component was started, grouped or not.
C28_RaiseLeavesNoShape ==
    [][RaiseStep => slide_shapes' = slide_shapes]_vars

ToolAt(k) == Get(components[k], "tool", "")

DataAt(k) == Get(components[k], "data", "ok")

\* the component at position k names a tool without schema, or with a schema
\* its data passes and without renderer
NeedsFallback(k) ==
    /\ ToolAt(k) # ""
    /\ \/ ToolAt(k) \notin env.schemas
       \/ DataAt(k) # "invalid" /\ ToolAt(k) \notin env.renderers

\* the step being taken takes the next component up for rendering
TakeUpStep == rp_pc = "loop" /\ rp_pc' = "resolve"

\* the step being taken skips the next component
SkipStep == rp_pc = "loop" /\ rp_pc' = "loop" /\ comp_idx' = comp_idx + 1

\* C26: a component whose tool has no schema, or a schema its data passes and
\* no renderer, is rendered through the legacy module when that module loads,
\* with the data as given when the schema is missing; when it does not load
\* the component is skipped and gets no registry entry and no shape; in both
\* cases the loop goes on with the next component.
C26_LegacyFallback ==
    /\ [][(TakeUpStep /\ NeedsFallback(comp_idx'))
            => /\ ToolAt(comp_idx') \in env.legacy
               /\ cur'.data = DataAt(comp_idx')
               /\ cur'.via = "legacy"]_vars
    /\ [][SkipStep => UNCHANGED <<registry, slide_shapes>>]_vars
    /\ [](InSlide =>
            \A k \in 1..Len(components) :
                (NeedsFallback(k) /\ (k < comp_idx \/ (k = comp_idx /\ rp_pc = "loop"))) =>
                    IF ToolAt(k) \in env.legacy
                    THEN /\ ~Done(k, "skip_not_loaded")
                         /\ Done(k, "unvalidated") <=> ToolAt(k) \notin env.schemas
                         /\ Done(k, "validated") <=> ToolAt(k) \in env.schemas
                         /\ Done(k, "dispatched") \/ Done(k, "raised")
                         /\ Done(k, "dispatched") => Done(k, "registered")
                    ELSE /\ Done(k, "skip_not_loaded")
                         /\ ~Done(k, "dispatched")
                         /\ ~Done(k, "registered")
                         /\ UniqueId(k) => IdAt(k) \notin DOMAIN registry)
    /\ []((rp_pc = "loop" /\ HasNext) =>
            ENABLED (SkipNoTool \/ SkipNotLoaded \/ SkipInvalid \/ Validate))
    /\ [](SlideFinished => \A k \in 1..Len(components) : Left(k))

\* a component whose tool has only a legacy module has been rendered with
\* unvalidated data and registered
C26_Witness ==
    /\ SlideFinished
    /\ Len(components) = 2
    /\ ToolAt(2) = "no_such_tool"
    /\ env.schemas = SchemaModules
    /\ env.renderers = RendererModules
    /\ "no_such_tool" \in env.legacy
    /\ Done(2, "unvalidated")
    /\ Done(2, "registered")
    /\ DOMAIN registry = {IdAt(2)}

(***************************************************************************)
(* Properties of the percent conversion.                                   *)
(***************************************************************************)
InRange(pct) == \A f \in {"x", "y", "w", "h"} : 0 <= pct[f] /\ pct[f] <= 100

\* C15: a percent box with x, y, w and h in 0..100, converted against a
\* parent of non-negative width and height, comes out with width >= 0 and
\* height >= 0, from parse_geom as well as from _rel_to_abs.
C15_NonNegativeExtent ==
    (pg_pc \in {"parsed", "done"} /\ InRange(pg_pct)
       /\ pg_parent.width >= 0 /\ pg_parent.height >= 0) =>
        /\ pg_geom.width >= 0 /\ pg_geom.height >= 0
        /\ pg_pc = "done" => pg_abs.w >= 0 /\ pg_abs.h >= 0

\* a box of 29 percent of a parent 100 wide has been converted both ways
C15_Witness ==
    /\ pg_pc = "done"
    /\ pg_pct.w = 29
    /\ pg_parent.width = 100
    /\ pg_geom.width = 28
    /\ pg_abs.w = 28

(***************************************************************************)
(* Further properties of the connector router.  R(f, t, res) is stated for *)
(* the connector res routed from box f to box t; the points of res are in  *)
(* half units.                                                             *)
(***************************************************************************)
Right(g) == g.x + g.w

Bottom(g) == g.y + g.h

\* four times the distances between the centers
Dx4(f, t) == 2 * Abs((2 * t.x + t.w) - (2 * f.x + f.w))

Dy4(f, t) == 2 * Abs((2 * t.y + t.h) - (2 * f.y + f.h))

NoHorizontalOverlap(f, t) == Right(f) <= t.x \/ Right(t) <= f.x

NoVerticalOverlap(f, t) == Bottom(f) <= t.y \/ Bottom(t) <= f.y

Rule1(f, t) == Dy4(f, t) < f.h + t.h /\ NoHorizontalOverlap(f, t)

Rule2(f, t) == Dx4(f, t) < f.w + t.w /\ NoVerticalOverlap(f, t)

Routed(res) == res # <<>>

StraightExactly(f, t, res) ==
    /\ res.style \in {STRAIGHT, ELBOW}
    /\ res.style = STRAIGHT <=> (Rule1(f, t) \/ (~Rule1(f, t) /\ Rule2(f, t)))

\* C22: the connector is straight exactly when rule 1 matches (vertical
\* center distance below a quarter of the sum of the heights, no horizontal
\* overlap) or, rule 1 not matching, rule 2 matches (horizontal center
\* distance below a quarter of the sum of the widths, no vertical overlap);
\* otherwise it is an elbow.
C22_StraightExactlyByRules ==
    /\ Routed(rt_ab) => StraightExactly(rt_a, rt_b, rt_ab)
    /\ Routed(rt_ba) => StraightExactly(rt_b, rt_a, rt_ba)

\* two boxes of positive size, one above the other: rule 1 does not match,
\* rule 2 does, and the connector is straight
C22_Witness ==
    /\ Routed(rt_ab)
    /\ Routed(rt_ba)
    /\ ~Rule1(rt_a, rt_b)
    /\ Rule2(rt_a, rt_b)
    /\ rt_a.w > 0
    /\ rt_a.h > 0
    /\ rt_ab.style = STRAIGHT

StraightEnds(f, t, m, res) ==
    /\ Rule1(f, t) =>
          IF Right(f) <= t.x
          THEN /\ res.sites = <<3, 1>>
               /\ res.start = <<2 * (Right(f) + m), 2 * f.y + f.h>>
               /\ res.end = <<2 * (t.x - m), 2 * t.y + t.h>>
          ELSE /\ res.sites = <<1, 3>>
               /\ res.start = <<2 * (f.x - m), 2 * f.y + f.h>>
               /\ res.end = <<2 * (Right(t) + m), 2 * t.y + t.h>>
    /\ (~Rule1(f, t) /\ Rule2(f, t)) =>
          IF Bottom(f) <= t.y
          THEN /\ res.sites = <<2, 0>>
               /\ res.start = <<2 * f.x + f.w, 2 * (Bottom(f) + m)>>
               /\ res.end = <<2 * t.x + t.w, 2 * (t.y - m)>>
          ELSE /\ res.sites = <<0, 2>>
               /\ res.start = <<2 * f.x + f.w, 2 * (f.y - m)>>
               /\ res.end = <<2 * t.x + t.w, 2 * (Bottom(t) + m)>>

\* C23: under rule 1 the straight connector runs between the facing vertical
\* sides, each end moved outward by margin and at the vertical center of its
\* box, with sites (3,1) when the from-box is left of the to-box and (1,3)
\* otherwise; under rule 2 it runs between the facing horizontal sides, at
\* the horizontal centers, with sites (2,0) when the from-box is above the
\* to-box and (0,2) otherwise.
C23_StraightEndsOnFacingSides ==
    /\ Routed(rt_ab) => StraightEnds(rt_a, rt_b, rt_margin, rt_ab)
    /\ Routed(rt_ba) => StraightEnds(rt_b, rt_a, rt_margin, rt_ba)

\* a is left of b with a gap and a margin of 1: (3,1) one way, (1,3) back
C23_Witness ==
    /\ Routed(rt_ab)
    /\ Routed(rt_ba)
    /\ rt_margin = 1
    /\ rt_a.w > 0
    /\ rt_b.w > 0
    /\ Right(rt_a) < rt_b.x
    /\ Rule1(rt_a, rt_b)
    /\ rt_ab.sites = <<3, 1>>
    /\ rt_ba.sites = <<1, 3>>
    /\ rt_ab.start[1] = 2 * Right(rt_a) + 2

ElbowEnds(f, t, res) ==
    res.style = ELBOW =>
        /\ res.start = <<2 * f.x + f.w, 2 * f.y + f.h>>
        /\ res.end = <<2 * t.x + t.w, 2 * t.y + t.h>>
        /\ res.sites = IF Dx4(f, t) >= Dy4(f, t)
                       THEN IF 2 * t.x + t.w > 2 * f.x + f.w THEN <<3, 1>> ELSE <<1, 3>>
                       ELSE IF 2 * t.y + t.h > 2 * f.y + f.h THEN <<2, 0>> ELSE <<0, 2>>

\* C24: an elbow connector starts at the center of the from-box and ends at
\* the center of the to-box; its sites are (3,1) or (1,3) when the horizontal
\* center distance is at least the vertical one (to-box right of the from-box
\* or not), and (2,0) or (0,2) otherwise (to-box below or not).
C24_ElbowBetweenCenters ==
    /\ Routed(rt_ab) => ElbowEnds(rt_a, rt_b, rt_ab)
    /\ Routed(rt_ba) => ElbowEnds(rt_b, rt_a, rt_ba)

\* a diagonal pair with equal center distances on both axes
C24_Witness ==
    /\ Routed(rt_ab)
    /\ Routed(rt_ba)
    /\ rt_ab.style = ELBOW
    /\ Dx4(rt_a, rt_b) = Dy4(rt_a, rt_b)
    /\ Dx4(rt_a, rt_b) > 0
    /\ rt_ab.sites \in {<<3, 1>>, <<1, 3>>}
    /\ rt_ba.sites = Mirror(rt_ab.sites)

\* the router with rule 2 tried before rule 1
rule2_first(from_g, to_g, margin) ==
    IF rule2_matches(from_g, to_g) THEN straight_vertical(from_g, to_g, margin)
    ELSE IF rule1_matches(from_g, to_g) THEN straight_horizontal(from_g, to_g, margin)
    ELSE elbow(from_g, to_g)

\* C27: with non-negative widths and heights rule 1 and rule 2 never match
\* the same pair of boxes, so trying them in the other order gives the same
\* connector.
C27_RulesExclusive ==
    /\ ~(rule1_matches(rt_a, rt_b) /\ rule2_matches(rt_a, rt_b))
    /\ ~(rule1_matches(rt_b, rt_a) /\ rule2_matches(rt_b, rt_a))
    /\ Routed(rt_ab) => rt_ab = rule2_first(rt_a, rt_b, rt_margin)
    /\ Routed(rt_ba) => rt_ba = rule2_first(rt_b, rt_a, rt_margin)

\* two boxes of positive size, one straight above the other, routed by
\* rule 2 while rule 1 does not match
C27_Witness ==
    /\ Routed(rt_ab)
    /\ Routed(rt_ba)
    /\ rt_a.w > 0 /\ rt_a.h > 0 /\ rt_b.w > 0 /\ rt_b.h > 0
    /\ rule2_matches(rt_a, rt_b)
    /\ ~rule1_matches(rt_a, rt_b)
    /\ rt_ab.sites = <<2, 0>>

(***************************************************************************)
(* Further properties of the decompose_boxes layout.                       *)
(***************************************************************************)
\* the weight the partitioner reads for a node, 1 when the key is absent
SeenW(node) == IF root_data.weight[node] = NoWeight THEN 1 ELSE root_data.weight[node][1]

CountedW(node) == IF SeenW(node) <= 0 THEN 0 ELSE SeenW(node)

PositiveSum(kids) == SeqSum([k \in 1..Len(kids) |-> CountedW(kids[k])])

TotalW(kids) == IF PositiveSum(kids) > 0 THEN PositiveSum(kids) ELSE Len(kids)

\* every sibling but the last has round(usable * w / total) as its height
SharesOf(kids, usable) ==
    /\ TotalW(kids) > 0
    /\ \A k \in 1..(Len(kids) - 1) :
          AssignedH(kids)[k] = py_round(usable * CountedW(kids[k]), TotalW(kids))

UsableMinusGaps(extent, n) == extent - GapY * (n - 1)

UsableOrExtent(extent, n) ==
    IF UsableMinusGaps(extent, n) < 0 THEN extent ELSE UsableMinusGaps(extent, n)

\* C25 as stated: every sibling but the last gets round(usable * w / total)
\* with usable the parent extent minus gap * (n - 1), w the weight (1 when
\* omitted, 0 when not positive) and total the sum of the positive weights,
\* or n when there is none.
C25_SharesOfExtentMinusGaps ==
    lay_pc = "done" =>
        /\ (lay_data.is_list /\ children(root_data, 0) # <<>>) =>
               SharesOf(children(root_data, 0),
                        UsableMinusGaps(ContentH, Len(children(root_data, 0))))
        /\ \A p \in NodesOf(root_data) :
               children(root_data, p) # <<>> =>
                   SharesOf(children(root_data, p),
                            UsableMinusGaps(boxes[EntryOf(p)].h, Len(children(root_data, p))))

\* C25: every sibling but the last gets round(usable * w / total), where
\* usable is the parent extent minus gap * (n - 1), or the parent extent
\* itself when that difference is negative, w is the weight (1 when omitted,
\* 0 when not positive) and total is the sum of the positive weights, or n
\* when there is none; total is never zero.
C25_SharesOfUsable ==
    lay_pc = "done" =>
        /\ (lay_data.is_list /\ children(root_data, 0) # <<>>) =>
               SharesOf(children(root_data, 0),
                        UsableOrExtent(ContentH, Len(children(root_data, 0))))
        /\ \A p \in NodesOf(root_data) :
               children(root_data, p) # <<>> =>
                   SharesOf(children(root_data, p),
                            UsableOrExtent(boxes[EntryOf(p)].h, Len(children(root_data, p))))

\* a level without positive weight beside a level whose gaps do not fit in
\* the extent of the parent, so that the share differs from the one computed
\* with the gaps subtracted
C25_Witness ==
    /\ lay_pc = "done"
    /\ lay_data.is_list
    /\ Len(children(root_data, 0)) = 2
    /\ \E p \in NodesOf(root_data) :
          LET kids == children(root_data, p)
          IN  /\ Len(kids) = 2
              /\ UsableMinusGaps(boxes[EntryOf(p)].h, 2) < 0
              /\ AssignedH(kids)[1] #
                    py_round(UsableMinusGaps(boxes[EntryOf(p)].h, 2) * CountedW(kids[1]),
                             TotalW(kids))

\* the vertical span a box covers: from its upper to its lower edge
TopOf(b) == Min2(b.y, b.y + b.h)

BottomOf(b) == Max2(b.y, b.y + b.h)

SpanWithin(c, p) == TopOf(c) >= TopOf(p) /\ BottomOf(c) <= BottomOf(p)

SpansOverlap(a, b) == TopOf(a) < BottomOf(b) /\ TopOf(b) < BottomOf(a)

\* C29: every child box lies within the vertical span of the box of its
\* parent (its top is not above the parent's top, its bottom not below the
\* parent's bottom), and the boxes of two siblings do not overlap vertically.
C29_ChildrenInsideParentSiblingsApart ==
    lay_pc = "done" =>
        /\ \A p \in NodesOf(root_data) :
              \A k \in 1..Len(children(root_data, p)) :
                  SpanWithin(boxes[EntryOf(children(root_data, p)[k])], boxes[EntryOf(p)])
        /\ \A p \in NodesOf(root_data) \cup {0} :
              \A j, k \in 1..Len(children(root_data, p)) :
                  j < k => ~SpansOverlap(boxes[EntryOf(children(root_data, p)[j])],
                                         boxes[EntryOf(children(root_data, p)[k])])

(***************************************************************************)
(* Further properties of the IR normalizer.                                *)
(***************************************************************************)
\* C30: _normalize_ir is idempotent: for a list or dict root, normalizing the
\* IR it returned returns an IR equal to it, with the same version, meta,
\* theme and slides.
C30_NormalizeIdempotent ==
    nm_pc = "renormalized" =>
        /\ nm_again # Raised
        /\ nm_again.returned = nm_out
        /\ \A key \in CanonicalKeys :
              /\ HasKey(nm_again.returned, key)
              /\ nm_again.returned.dict[key] = nm_out.dict[key]

\* a dict root with components and without slides: the first call wrapped
\* the components into a slide, the second call changed nothing
C30_Witness ==
    /\ nm_pc = "renormalized"
    /\ IsDict(nm_raw)
    /\ HasKey(nm_raw, "components")
    /\ ~HasKey(nm_raw, "slides")
    /\ nm_out # nm_raw
    /\ Len(nm_out.dict["slides"].list) = 1
    /\ nm_again = Returned(nm_out)

====
